---- MODULE Spec2Model ----
(***************************************************************************)
(* Model of the groundwater anomaly service (src/app.py): the /predict    *)
(* handler (feature vector, decision, alert dispatch, insert, response),   *)
(* the /history handler and the predictions table.                         *)
(*                                                                         *)
(* Numbers are fixed point, in tenths: the integer n stands for n/10, so   *)
(* the threshold 60.7 is 607 and 40075 is 400750.  Request values carry    *)
(* at most one fractional digit.  Python values are tagged records:        *)
(*   [t |-> "num", v |-> n]     an int or float                            *)
(*   [t |-> "str", s |-> cs]    a str, cs its characters                   *)
(*   [t |-> "null"]             None                                       *)
(*   [t |-> "exc", e |-> name]  a raised exception                         *)
(***************************************************************************)
EXTENDS Integers, Sequences, FiniteSets, TLC

VARIABLES env, db, pc, data, X, raw_pred, score, final_label, mail,
          lastrowid, txn, resp, hist, served, log

vars == <<env, db, pc, data, X, raw_pred, score, final_label, mail,
          lastrowid, txn, resp, hist, served, log>>

(* ---------------------------------------------------------------- values *)

Num(n) == [t |-> "num", v |-> n]

Str(cs) == [t |-> "str", s |-> cs]

None == [t |-> "null"]

Exc(name) == [t |-> "exc", e |-> name]

IsExc(v) == v.t = "exc"

Digits == <<"0", "1", "2", "3", "4", "5", "6", "7", "8", "9">>

IsDigit(c) == \E i \in 1..10 : Digits[i] = c

DigitVal(c) == (CHOOSE i \in 1..10 : Digits[i] = c) - 1

\* Python truthiness: bool(v) for the values a JSON payload or os.getenv gives.
Truthy(v) ==
    CASE v.t = "null" -> FALSE
      [] v.t = "num"  -> v.v # 0
      [] v.t = "str"  -> Len(v.s) > 0
      [] OTHER        -> FALSE

\* The value of a run of decimal digits, left to right.
RECURSIVE DigitsValue(_, _)
DigitsValue(cs, acc) ==
    IF cs = <<>> THEN acc
    ELSE DigitsValue(Tail(cs), 10 * acc + DigitVal(Head(cs)))

AllDigits(cs) == \A i \in 1..Len(cs) : IsDigit(cs[i])

\* Position of the first "." of cs, or 0.
DotPos(cs) ==
    IF \E i \in 1..Len(cs) : cs[i] = "."
    THEN CHOOSE i \in 1..Len(cs) : cs[i] = "." /\ \A j \in 1..(i - 1) : cs[j] # "."
    ELSE 0

\* float(str): [sign] digits [. digit] with at least one digit, in tenths;
\* anything else raises ValueError.
ParseUnsigned(cs) ==
    LET d    == DotPos(cs)
        ip   == IF d = 0 THEN cs ELSE SubSeq(cs, 1, d - 1)
        fp   == IF d = 0 THEN <<>> ELSE SubSeq(cs, d + 1, Len(cs))
    IN  IF /\ AllDigits(ip) /\ AllDigits(fp)
           /\ Len(ip) + Len(fp) > 0
           /\ Len(fp) <= 1
        THEN Num(10 * DigitsValue(ip, 0) + DigitsValue(fp, 0))
        ELSE Exc("ValueError")

ParseFloat(cs) ==
    IF cs # <<>> /\ Head(cs) = "-"
    THEN LET r == ParseUnsigned(Tail(cs))
         IN  IF IsExc(r) THEN r ELSE Num(0 - r.v)
    ELSE ParseUnsigned(cs)

\* float(v)
Float(v) ==
    CASE v.t = "num"  -> v
      [] v.t = "str"  -> ParseFloat(v.s)
      [] v.t = "null" -> Exc("TypeError")
      [] OTHER        -> v

\* repr of a non-negative integer, as characters.
RECURSIVE FormatNat(_)
FormatNat(n) ==
    IF n < 10 THEN <<Digits[n + 1]>>
    ELSE FormatNat(n \div 10) \o <<Digits[(n % 10) + 1]>>

\* json.dumps of a number: the decimal text of n/10.
FormatNum(n) ==
    LET a == IF n < 0 THEN 0 - n ELSE n
        body == FormatNat(a \div 10) \o <<".">> \o <<Digits[(a % 10) + 1]>>
    IN  IF n < 0 THEN <<"-">> \o body ELSE body

\* json.dumps of one value.
JsonEncode(v) ==
    CASE v.t = "num"  -> FormatNum(v.v)
      [] v.t = "str"  -> <<"\"">> \o v.s \o <<"\"">>
      [] OTHER        -> <<"n", "u", "l", "l">>

\* json.loads of one value's text.
JsonDecode(cs) ==
    IF cs = <<"n", "u", "l", "l">> THEN None
    ELSE IF Head(cs) = "\"" THEN Str(SubSeq(cs, 2, Len(cs) - 1))
    ELSE ParseFloat(cs)

(* ------------------------------------------------- schema and thresholds *)

features_order ==
    << "Recharge from rainfall During Monsoon Season",
       "Recharge from other sources During Monsoon Season",
       "Recharge from rainfall During Non Monsoon Season",
       "Recharge from other sources During Non Monsoon Season",
       "Total Natural Discharges",
       "Current Annual Ground Water Extraction For Irrigation",
       "Current Annual Ground Water Extraction For Domestic & Industrial Use",
       "Net Ground Water Availability for future use",
       "Stage of Ground Water Extraction (%)" >>

FeatureNames == {features_order[i] : i \in 1..Len(features_order)}

\* In tenths, in the order of the table.
critical_thresholds ==
    [f \in FeatureNames |->
        CASE f = features_order[1] -> 400750
          [] f = features_order[2] -> 93660
          [] f = features_order[3] -> 48500
          [] f = features_order[4] -> 121240
          [] f = features_order[5] -> 55970
          [] f = features_order[6] -> 355300
          [] f = features_order[7] -> 42150
          [] f = features_order[8] -> 264980
          [] f = features_order[9] -> 607]

\* LIMIT of the /history query.
HistoryLimit == 100

(* ------------------------------------------------------------ the request *)

\* Variant of Lookup: data.get(k, 0), an absent key reads as 0.
Lookup_default(d, k) == IF k \in DOMAIN d THEN d[k] ELSE Num(0)

\* data[k]: KeyError when the key is absent.
Lookup(d, k) == IF k \in DOMAIN d THEN d[k] ELSE Exc("KeyError")

\* data.get(k)
Get(d, k) == IF k \in DOMAIN d THEN d[k] ELSE None

\* [float(data[f]) for f in features_order]: the vector, or the exception of
\* the first feature whose lookup or cast raises.
BuildVector(d) ==
    LET xs  == [i \in 1..Len(features_order) |-> Float(Lookup(d, features_order[i]))]
        bad == {i \in 1..Len(features_order) : IsExc(xs[i])}
    IN  IF bad = {} THEN [t |-> "vec", x |-> [i \in 1..Len(features_order) |-> xs[i].v]]
        ELSE xs[CHOOSE i \in bad : \A j \in bad : i <= j]

\* Variant of ThresholdTrigger: >= in place of >.
ThresholdTrigger_ge(d) ==
    LET xs  == [f \in DOMAIN critical_thresholds |-> Float(Lookup(d, f))]
        bad == {f \in DOMAIN critical_thresholds : IsExc(xs[f])}
    IN  IF bad # {} THEN xs[CHOOSE f \in bad : TRUE]
        ELSE [t |-> "bool",
              b |-> \E f \in DOMAIN critical_thresholds : xs[f].v >= critical_thresholds[f]]

\* any(float(data[f]) > critical_thresholds[f] for f in critical_thresholds)
ThresholdTrigger(d) ==
    LET xs  == [f \in DOMAIN critical_thresholds |-> Float(Lookup(d, f))]
        bad == {f \in DOMAIN critical_thresholds : IsExc(xs[f])}
    IN  IF bad # {} THEN xs[CHOOSE f \in bad : TRUE]
        ELSE [t |-> "bool",
              b |-> \E f \in DOMAIN critical_thresholds : xs[f].v > critical_thresholds[f]]

\* "CRITICAL" if raw_pred == -1 or threshold_trigger else "SAFE"
FinalLabel(raw, trigger) == IF raw = -1 \/ trigger THEN "CRITICAL" ELSE "SAFE"

\* What scaler.transform, model.predict and model.decision_function can do with
\* a vector: a verdict and a score (tenths), or an exception of the library.
ModelOutputs ==
    { [t |-> "ok", raw |-> -1, score |-> -2],
      [t |-> "ok", raw |-> 1, score |-> 3],
      Exc("ValueError") }

\* float(data[k]) if data.get(k) else None
OptionalFloat(d, k) == IF Truthy(Get(d, k)) THEN Float(Lookup(d, k)) ELSE None

\* Variant of FeaturesJson: json.dumps({f: float(data[f]) ...}), the cast
\* values in place of the submitted ones.
FeaturesJson_cast(d) ==
    LET vs  == [i \in 1..Len(features_order) |-> Float(Lookup(d, features_order[i]))]
        bad == {i \in 1..Len(features_order) : IsExc(vs[i])}
    IN  IF bad # {} THEN vs[CHOOSE i \in bad : \A j \in bad : i <= j]
        ELSE [t |-> "text",
              pairs |-> [i \in 1..Len(features_order) |->
                            <<features_order[i], JsonEncode(vs[i])>>]]

\* json.dumps({f: data[f] for f in features_order}): the text, as key and
\* encoded value in the order of the features.
FeaturesJson(d) ==
    LET vs  == [i \in 1..Len(features_order) |-> Lookup(d, features_order[i])]
        bad == {i \in 1..Len(features_order) : IsExc(vs[i])}
    IN  IF bad # {} THEN vs[CHOOSE i \in bad : \A j \in bad : i <= j]
        ELSE [t |-> "text",
              pairs |-> [i \in 1..Len(features_order) |->
                            <<features_order[i], JsonEncode(vs[i])>>]]

\* json.loads(r["features_json"]): the mapping the text denotes.
JsonLoads(text) ==
    [k \in {text.pairs[i][1] : i \in 1..Len(text.pairs)} |->
        JsonDecode((CHOOSE p \in {text.pairs[i] : i \in 1..Len(text.pairs)} : p[1] = k)[2])]

(* ---------------------------------------------------------- alert e-mail *)

\* What the SMTP conversation of lines 45-49 can do.
SmtpOutcomes == {"ok", "connect_error", "login_error", "sendmail_error"}

\* Variant of send_email_alert without the try/except: an SMTP failure leaves
\* the function as an exception.
send_email_alert_propagates(subject, message, to_email, e, smtp) ==
    IF ~Truthy(e.EMAIL_SENDER) \/ ~Truthy(e.EMAIL_PASSWORD)
    THEN [attempted |-> FALSE, raised |-> FALSE, sent |-> <<>>,
          printed |-> "Email Error: Missing EMAIL_SENDER or EMAIL_PASSWORD"]
    ELSE IF smtp = "ok"
    THEN [attempted |-> TRUE, raised |-> FALSE,
          sent |-> <<[From |-> e.EMAIL_SENDER, To |-> to_email,
                      Subject |-> subject, body |-> message]>>,
          printed |-> "Email sent successfully"]
    ELSE [attempted |-> TRUE, raised |-> TRUE, sent |-> <<>>, printed |-> ""]

\* Variant of send_email_alert: "and" in place of "or" in the credentials
\* guard, so one credential is enough to go on.
send_email_alert_and(subject, message, to_email, e, smtp) ==
    IF ~Truthy(e.EMAIL_SENDER) /\ ~Truthy(e.EMAIL_PASSWORD)
    THEN [attempted |-> FALSE, raised |-> FALSE, sent |-> <<>>,
          printed |-> "Email Error: Missing EMAIL_SENDER or EMAIL_PASSWORD"]
    ELSE IF smtp = "ok"
    THEN [attempted |-> TRUE, raised |-> FALSE,
          sent |-> <<[From |-> e.EMAIL_SENDER, To |-> to_email,
                      Subject |-> subject, body |-> message]>>,
          printed |-> "Email sent successfully"]
    ELSE [attempted |-> TRUE, raised |-> FALSE, sent |-> <<>>,
          printed |-> "Email sending failed"]

\* send_email_alert, given the environment e and the outcome of the SMTP
\* conversation: whether a send was attempted, what was sent, what was printed,
\* and whether an exception leaves the function.
send_email_alert(subject, message, to_email, e, smtp) ==
    IF ~Truthy(e.EMAIL_SENDER) \/ ~Truthy(e.EMAIL_PASSWORD)
    THEN [attempted |-> FALSE, raised |-> FALSE, sent |-> <<>>,
          printed |-> "Email Error: Missing EMAIL_SENDER or EMAIL_PASSWORD"]
    ELSE IF smtp = "ok"
    THEN [attempted |-> TRUE, raised |-> FALSE,
          sent |-> <<[From |-> e.EMAIL_SENDER, To |-> to_email,
                      Subject |-> subject, body |-> message]>>,
          printed |-> "Email sent successfully"]
    ELSE [attempted |-> TRUE, raised |-> FALSE, sent |-> <<>>,
          printed |-> "Email sending failed"]

(* ------------------------------------------------------------- the table *)

\* datetime.now(IST).isoformat(): the clock is not modelled.
Now == "now(IST)"

\* Variant of NextRowId: the id column without AUTOINCREMENT bookkeeping, the
\* last id handed out again.
NextRowId_reuse(d) == IF d.seq = 0 THEN 1 ELSE d.seq

\* AUTOINCREMENT: one more than the largest id the table ever held.
NextRowId(d) == d.seq + 1

\* The row of lines 157-167, given its id.
NewRow(id, lat, lon, fj, raw, sc, label) ==
    [id |-> id, timestamp |-> Now, state |-> None, district |-> None,
     latitude |-> lat, longitude |-> lon, features_json |-> fj,
     raw_prediction |-> raw, decision_score |-> sc, label |-> label]

\* ORDER BY id DESC: the rows sorted around a median row.  The id is the
\* PRIMARY KEY, so the rows of a table differ in it; rows of one id stay
\* together.
RECURSIVE OrderByIdDesc(_)
OrderByIdDesc(rows) ==
    IF rows = {} THEN <<>>
    ELSE LET n == Cardinality(rows)
             p == CHOOSE x \in rows :
                    /\ Cardinality({q \in rows : q.id > x.id}) <= n \div 2
                    /\ Cardinality({q \in rows : q.id < x.id}) <= n \div 2
         IN  OrderByIdDesc({q \in rows : q.id > p.id})
             \o <<p>>
             \o OrderByIdDesc({q \in rows \ {p} : q.id = p.id})
             \o OrderByIdDesc({q \in rows : q.id < p.id})

\* LIMIT n
Limit(rs, n) == IF Len(rs) <= n THEN rs ELSE SubSeq(rs, 1, n)

\* Variant of SelectHistory: the query without its LIMIT.
SelectHistory_nolimit(rows) == OrderByIdDesc(rows)

\* SELECT * FROM predictions ORDER BY id DESC LIMIT 100
SelectHistory(rows) == Limit(OrderByIdDesc(rows), HistoryLimit)

\* One element of history_list.  A falsy label (NULL or "") is derived from
\* the raw verdict.
HistoryEntry(r) ==
    [id |-> r.id, timestamp |-> r.timestamp,
     latitude |-> r.latitude, longitude |-> r.longitude,
     features |-> JsonLoads(r.features_json),
     raw_prediction |-> r.raw_prediction, decision_score |-> r.decision_score,
     label |-> IF r.label # "" THEN r.label
               ELSE IF r.raw_prediction = -1 THEN "CRITICAL" ELSE "SAFE"]

\* The body of the /history response for a table.
HistoryList(rows) ==
    LET rs == SelectHistory(rows)
    IN  [i \in 1..Len(rs) |-> HistoryEntry(rs[i])]

(* ------------------------------------------------------------ the inputs *)

With(d, k, v) == [x \in (DOMAIN d) \cup {k} |-> IF x = k THEN v ELSE d[x]]

Without(d, k) == [x \in (DOMAIN d) \ {k} |-> d[x]]

\* A payload with every feature at 10.0, far below its threshold, and a place.
Base ==
    [k \in FeatureNames \cup {"latitude", "longitude"} |->
        IF k = "latitude" THEN Num(285)
        ELSE IF k = "longitude" THEN Num(772) ELSE Num(100)]

\* One feature exactly at its threshold, or one tenth above it.
ThresholdRequests ==
    {With(Base, f, Num(critical_thresholds[f] + dlt)) : f \in FeatureNames, dlt \in {0, 1}}

\* Features sent as numeric strings.
StringRequests ==
    { With(Base, features_order[1], Str(<<"1", "2", ".", "5">>)),
      With(Base, features_order[9], Str(<<"6", "0", ".", "7">>)),
      With(Base, features_order[9], Str(<<"6", "1", ".", "0">>)) }

\* A required feature absent, or present and not castable.
BadRequests ==
    { Without(Base, features_order[1]),
      Without(Base, features_order[9]),
      With(Base, features_order[1], Str(<<"a", "b", "c">>)),
      With(Base, features_order[9], None) }

GeoValues ==
    {None, Num(0), Str(<<>>), Str(<<"7", "7", ".", "2">>), Str(<<"a", "b", "c">>)}

\* The place absent, or one coordinate given in another way.
GeoRequests ==
    {Without(Base, k) : k \in {"latitude", "longitude"}}
    \cup {With(Base, k, v) : k \in {"latitude", "longitude"}, v \in GeoValues}

Requests == {Base} \cup ThresholdRequests \cup StringRequests \cup BadRequests \cup GeoRequests

\* os.getenv: None, "" or a value.
EnvValues == {None, Str(<<>>), Str(<<"x">>)}

EnvAllSet == [EMAIL_SENDER |-> Str(<<"x">>), EMAIL_PASSWORD |-> Str(<<"x">>), ALERT_EMAIL |-> Str(<<"x">>)]

EnvNoneSet == [EMAIL_SENDER |-> None, EMAIL_PASSWORD |-> None, ALERT_EMAIL |-> None]

\* Everything set, or one variable unset or empty, or nothing set.
Envs ==
    {EnvAllSet, EnvNoneSet}
    \cup {[EnvAllSet EXCEPT ![k] = v] : k \in DOMAIN EnvAllSet, v \in {None, Str(<<>>)}}

\* Requests served in one behaviour.
MaxPredicts == 1

\* Rows earlier runs of the service left in the table.
MaxSeed == 1

\* How far around the LIMIT the table starts in SpecCap.
CapSlack == 1

\* A row an earlier run stored for Base.
SeedRow(i) ==
    NewRow(i, Num(285), Num(772), FeaturesJson(Base), 1, 3, "SAFE")

SeedDb(n) == [rows |-> {SeedRow(i) : i \in 1..n}, seq |-> n]

(* ------------------------------------------------------ the state machine *)
(* One request is handled at a time; pc names the statement of predict     *)
(* that runs next.  env is the process environment, db the committed       *)
(* table with its AUTOINCREMENT counter, txn the rows inserted on the      *)
(* request's connection and not yet committed, resp and hist the last      *)
(* responses of /predict and /history, log the steps the request ran.      *)

\* Variant of NextStep: the row is saved before the alert is dispatched.
NextStep_save_first(step) ==
    CASE step = "build"   -> "decide"
      [] step = "decide"  -> "insert"
      [] step = "insert"  -> "commit"
      [] step = "commit"  -> "alert"
      [] step = "alert"   -> "respond"
      [] step = "respond" -> "done"

\* The order of the statements of predict.
NextStep(step) ==
    CASE step = "build"   -> "decide"
      [] step = "decide"  -> "alert"
      [] step = "alert"   -> "insert"
      [] step = "insert"  -> "commit"
      [] step = "commit"  -> "respond"
      [] step = "respond" -> "done"

NoResponse == [status |-> 0]

NoMail == [stage |-> "none", attempted |-> FALSE, sent |-> <<>>, printed |-> ""]

InitLocals ==
    /\ pc = "idle"
    /\ data = <<>>
    /\ X = <<>>
    /\ raw_pred = 0
    /\ score = 0
    /\ final_label = ""
    /\ mail = NoMail
    /\ lastrowid = 0
    /\ txn = {}
    /\ resp = NoResponse
    /\ hist = NoResponse
    /\ served = 0
    /\ log = <<>>

\* After init_db, with the rows an earlier run left in the table, and alerts
\* fully configured or not at all.
Init ==
    /\ env \in {EnvAllSet, EnvNoneSet}
    /\ db = SeedDb(MaxSeed)
    /\ InitLocals

\* The same, in every environment of Envs.
InitMail ==
    /\ env \in Envs
    /\ db = SeedDb(MaxSeed)
    /\ InitLocals

\* The same, with the table near the LIMIT of /history.
InitCap ==
    /\ env = EnvAllSet
    /\ db \in {SeedDb(n) : n \in (HistoryLimit - CapSlack)..(HistoryLimit + CapSlack)}
    /\ InitLocals

\* An exception leaves predict: Flask answers 500 and close_db closes the
\* connection, which drops what was not committed.
Raise(e) ==
    /\ resp' = [status |-> 500, error |-> e]
    /\ txn' = {}
    /\ pc' = "done"

\* Line 127: a request arrives with its JSON object.
Receive(reqs) ==
    /\ pc \in {"idle", "done"}
    /\ served < MaxPredicts
    /\ \E r \in reqs : data' = r
    /\ X' = <<>>
    /\ raw_pred' = 0
    /\ score' = 0
    /\ final_label' = ""
    /\ mail' = NoMail
    /\ lastrowid' = 0
    /\ txn' = {}
    /\ resp' = NoResponse
    /\ served' = served + 1
    /\ log' = <<>>
    /\ pc' = "build"
    /\ UNCHANGED <<env, db, hist>>

\* Line 130.
PredictBuild ==
    /\ pc = "build"
    /\ log' = Append(log, "build")
    /\ LET v == BuildVector(data)
       IN  IF IsExc(v)
           THEN Raise(v.e) /\ X' = X
           ELSE X' = v.x /\ pc' = NextStep("build") /\ UNCHANGED <<resp, txn>>
    /\ UNCHANGED <<env, db, data, raw_pred, score, final_label, mail, lastrowid,
                   hist, served>>

\* Lines 131-137.
PredictDecide ==
    /\ pc = "decide"
    /\ log' = Append(log, "decide")
    /\ \E m \in ModelOutputs :
         LET tr == ThresholdTrigger(data)
         IN  IF IsExc(m) \/ IsExc(tr)
             THEN /\ Raise(IF IsExc(m) THEN m.e ELSE tr.e)
                  /\ UNCHANGED <<raw_pred, score, final_label>>
             ELSE /\ raw_pred' = m.raw
                  /\ score' = m.score
                  /\ final_label' = FinalLabel(m.raw, tr.b)
                  /\ pc' = NextStep("decide")
                  /\ UNCHANGED <<resp, txn>>
    /\ UNCHANGED <<env, db, data, X, mail, lastrowid, hist, served>>

\* Lines 140-148.
PredictAlert ==
    /\ pc = "alert"
    /\ log' = Append(log, "alert")
    /\ LET receiver_email == env.ALERT_EMAIL
           subject == <<"Groundwater Alert: ", final_label>>
           message == [latitude |-> Get(data, "latitude"),
                       longitude |-> Get(data, "longitude"),
                       label |-> final_label, score |-> score]
       IN  IF Truthy(receiver_email)
           THEN \E smtp \in SmtpOutcomes :
                  LET r == send_email_alert(subject, message, receiver_email, env, smtp)
                  IN  /\ mail' = [stage |-> "called", attempted |-> r.attempted,
                                  sent |-> r.sent, printed |-> r.printed]
                      /\ IF r.raised
                         THEN Raise("SMTPException")
                         ELSE pc' = NextStep("alert") /\ UNCHANGED <<resp, txn>>
           ELSE /\ mail' = [NoMail EXCEPT !.stage = "skipped"]
                /\ pc' = NextStep("alert")
                /\ UNCHANGED <<resp, txn>>
    /\ UNCHANGED <<env, db, data, X, raw_pred, score, final_label, lastrowid,
                   hist, served>>

\* Lines 151-167: the parameters, then the INSERT on the request's connection.
PredictInsert ==
    /\ pc = "insert"
    /\ log' = Append(log, "insert")
    /\ LET lat == OptionalFloat(data, "latitude")
           lon == OptionalFloat(data, "longitude")
           fj  == FeaturesJson(data)
       IN  IF IsExc(lat) \/ IsExc(lon) \/ IsExc(fj)
           THEN /\ Raise(IF IsExc(lat) THEN lat.e ELSE IF IsExc(lon) THEN lon.e ELSE fj.e)
                /\ UNCHANGED lastrowid
           ELSE /\ lastrowid' = NextRowId(db)
                /\ txn' = {NewRow(NextRowId(db), lat, lon, fj, raw_pred, score, final_label)}
                /\ pc' = NextStep("insert")
                /\ UNCHANGED resp
    /\ UNCHANGED <<env, db, data, X, raw_pred, score, final_label, mail, hist, served>>

\* Line 168.
PredictCommit ==
    /\ pc = "commit"
    /\ log' = Append(log, "commit")
    /\ db' = [rows |-> db.rows \cup txn,
              seq  |-> IF \E r \in txn : r.id > db.seq
                       THEN CHOOSE n \in {r.id : r \in txn} : \A r \in txn : r.id <= n
                       ELSE db.seq]
    /\ txn' = {}
    /\ pc' = NextStep("commit")
    /\ UNCHANGED <<env, data, X, raw_pred, score, final_label, mail, lastrowid,
                   resp, hist, served>>

\* Lines 170-175.
PredictRespond ==
    /\ pc = "respond"
    /\ log' = Append(log, "respond")
    /\ resp' = [status |-> 200, success |-> TRUE, label |-> final_label,
                raw_prediction |-> raw_pred, decision_score |-> score]
    /\ pc' = NextStep("respond")
    /\ UNCHANGED <<env, db, data, X, raw_pred, score, final_label, mail, lastrowid,
                   txn, hist, served>>

\* Lines 179-199: /history reads the committed table.
history ==
    /\ hist' = [status |-> 200, success |-> TRUE, history |-> HistoryList(db.rows)]
    /\ hist' # hist
    /\ UNCHANGED <<env, db, pc, data, X, raw_pred, score, final_label, mail,
                   lastrowid, txn, resp, served, log>>

Next ==
    \/ Receive(Requests)
    \/ PredictBuild
    \/ PredictDecide
    \/ PredictAlert
    \/ PredictInsert
    \/ PredictCommit
    \/ PredictRespond
    \/ history

Spec == Init /\ [][Next]_vars

\* The requests of SpecCap: a valid one and one that lacks a feature.
CapRequests == {Base, Without(Base, features_order[1])}

NextCap ==
    \/ Receive(CapRequests)
    \/ PredictBuild
    \/ PredictDecide
    \/ PredictAlert
    \/ PredictInsert
    \/ PredictCommit
    \/ PredictRespond
    \/ history

SpecCap == InitCap /\ [][NextCap]_vars

\* The requests of SpecMail: a SAFE one, a CRITICAL one, one whose latitude is
\* not castable and one that lacks a feature.
MailRequests ==
    { Base,
      With(Base, features_order[9], Num(critical_thresholds[features_order[9]] + 1)),
      With(Base, "latitude", Str(<<"a", "b", "c">>)),
      Without(Base, features_order[1]) }

NextMail ==
    \/ Receive(MailRequests)
    \/ PredictBuild
    \/ PredictDecide
    \/ PredictAlert
    \/ PredictInsert
    \/ PredictCommit
    \/ PredictRespond
    \/ history

SpecMail == InitMail /\ [][NextMail]_vars

(* ------------------------------------------------------------ properties *)

Min(a, b) == IF a <= b THEN a ELSE b

\* Every required feature is present and castable to a number.
FeaturesValid(d) ==
    \A f \in FeatureNames : f \in DOMAIN d /\ ~IsExc(Float(d[f]))

\* A required feature is absent.
FeatureMissing(d) == \E f \in FeatureNames : f \notin DOMAIN d

\* The coordinate k is supplied and castable to a number.
GeoCastable(d, k) == k \in DOMAIN d /\ ~IsExc(Float(d[k]))

\* os.getenv gave a non-empty value.
Configured(v) == v.t = "str" /\ v.s # <<>>

\* The request was answered with success.
Succeeded == pc = "done" /\ resp.status = 200

\* The rows of the table that carry the id of the request's insert.
OwnRows == {r \in db.rows : r.id = lastrowid}

StepOrder == <<"build", "decide", "alert", "insert", "commit", "respond">>

\* C1: once the label of a request with 9 numeric features is decided, it is
\* "SAFE" exactly when the raw verdict is 1 and every raw feature value is at
\* most its threshold, and "CRITICAL" otherwise; the response and the stored
\* row carry that label.
C1_LabelIffVerdictAndThresholds ==
    final_label # "" =>
        /\ FeaturesValid(data)
        /\ final_label \in {"SAFE", "CRITICAL"}
        /\ final_label = "SAFE" <=>
              /\ raw_pred = 1
              /\ \A f \in FeatureNames : Float(data[f]).v <= critical_thresholds[f]
        /\ resp.status = 200 => resp.label = final_label
        /\ \A r \in txn \cup OwnRows : r.label = final_label

\* C1 witness: a request answered "SAFE" with one feature exactly at its
\* threshold.
C1_Witness ==
    /\ Succeeded
    /\ resp.label = "SAFE"
    /\ \E f \in FeatureNames : Float(data[f]).v = critical_thresholds[f]

\* C2: the commit of a /predict request adds exactly one row, whose id is
\* greater than every id the table held, and /history grows by one record up
\* to its limit; a success response is given only after such a commit.
C2_PredictAddsOneRecord ==
    [][ /\ (pc = "commit" /\ pc' # "commit") =>
              /\ \E r \in db'.rows \ db.rows :
                    /\ db'.rows = db.rows \cup {r}
                    /\ r.id = lastrowid
                    /\ \A q \in db.rows : q.id < r.id
              /\ Len(HistoryList(db'.rows)) =
                    Min(Len(HistoryList(db.rows)) + 1, HistoryLimit)
        /\ (pc # "commit" \/ pc' = "commit") => db' = db
        /\ (resp.status # 200 /\ resp'.status = 200) => OwnRows # {}
      ]_vars

\* C2 witness: a request succeeded and its row is the one that fills /history
\* to the limit.
C2_Witness ==
    /\ Succeeded
    /\ Cardinality(db.rows) = HistoryLimit
    /\ OwnRows # {}

\* C3: /history returns at most 100 records, in strictly descending order of
\* id, and they are the rows with the largest ids of the table.
C3_HistoryNewestFirst ==
    LET h   == HistoryList(db.rows)
        ids == {h[i].id : i \in 1..Len(h)}
    IN  /\ Len(h) = Min(Cardinality(db.rows), HistoryLimit)
        /\ \A i \in 1..(Len(h) - 1) : h[i].id > h[i + 1].id
        /\ \A i \in 1..Len(h) : \E r \in db.rows : r.id = h[i].id /\ HistoryEntry(r) = h[i]
        /\ \A r \in db.rows : r.id \in ids \/ \A i \in ids : r.id < i
        /\ hist.status = 200 =>
              /\ Len(hist.history) <= HistoryLimit
              /\ \A i \in 1..(Len(hist.history) - 1) :
                    hist.history[i].id > hist.history[i + 1].id

\* C3 witness: /history answered with 100 records from a table that holds more.
C3_Witness ==
    /\ hist.status = 200
    /\ Len(hist.history) = HistoryLimit
    /\ hist.history = HistoryList(db.rows)
    /\ Cardinality(db.rows) > HistoryLimit

\* C4: a request with a required feature absent or not castable is answered
\* with a client error (4xx).
C4_BadFeatureIsClientError ==
    (pc = "done" /\ ~FeaturesValid(data)) => resp.status \in 400..499

\* C5: no step of a request that lacks a required feature changes the table
\* or leaves a row pending, so /history answers the same before and after.
C5_MissingFeatureWritesNothing ==
    [][ (pc # "idle" /\ FeatureMissing(data)) =>
            /\ db' = db
            /\ txn' = {}
            /\ HistoryList(db'.rows) = HistoryList(db.rows) ]_vars

\* C5 witness: a request that lacks a feature was answered with an error, the
\* table holding rows.
C5_Witness ==
    /\ pc = "done"
    /\ FeatureMissing(data)
    /\ resp.status = 500
    /\ db.rows # {}

\* C6: once the alert step has run, whatever it did, the response and the
\* stored row of the finished request are those the payload and the model's
\* outputs alone determine.
C6_AlertNeverAffectsOutcome ==
    (pc = "done" /\ mail.stage # "none") =>
        LET lat == OptionalFloat(data, "latitude")
            lon == OptionalFloat(data, "longitude")
        IN  IF IsExc(lat) \/ IsExc(lon)
            THEN /\ resp = [status |-> 500, error |-> "ValueError"]
                 /\ lastrowid = 0
                 /\ txn = {}
            ELSE /\ resp = [status |-> 200, success |-> TRUE,
                            label |-> FinalLabel(raw_pred, ThresholdTrigger(data).b),
                            raw_prediction |-> raw_pred, decision_score |-> score]
                 /\ OwnRows =
                       {NewRow(lastrowid, lat, lon, FeaturesJson(data), raw_pred, score,
                               FinalLabel(raw_pred, ThresholdTrigger(data).b))}

\* C6 witness: a request succeeded although its send was attempted and failed.
C6_Witness ==
    /\ Succeeded
    /\ mail.attempted
    /\ mail.sent = <<>>
    /\ OwnRows # {}

\* C7: a finished request with valid features and a model verdict succeeded,
\* and its row holds each coordinate as a number when it was supplied and
\* castable, and null otherwise.
C7_OptionalGeoNullOrNumber ==
    (pc = "done" /\ final_label # "") =>
        /\ resp.status = 200
        /\ \A r \in OwnRows :
              /\ r.latitude = IF GeoCastable(data, "latitude")
                              THEN Float(data["latitude"]) ELSE None
              /\ r.longitude = IF GeoCastable(data, "longitude")
                               THEN Float(data["longitude"]) ELSE None

\* C8: the features /history returns for the row of a successful request are
\* the 9 canonical names, each with the value the request submitted.
C8_FeaturesRoundTrip ==
    Succeeded =>
        LET h == HistoryList(db.rows)
        IN  \E i \in 1..Len(h) :
              /\ h[i].id = lastrowid
              /\ DOMAIN h[i].features = FeatureNames
              /\ \A f \in FeatureNames : h[i].features[f] = data[f]

\* C8 witness: /history returned the row of a successful request that sent a
\* feature as a string.
C8_Witness ==
    /\ Succeeded
    /\ hist.status = 200
    /\ \E i \in 1..Len(hist.history) : hist.history[i].id = lastrowid
    /\ \E f \in FeatureNames : data[f].t = "str"

\* C9: once the alert step has run, a send was attempted exactly when
\* ALERT_EMAIL, EMAIL_SENDER and EMAIL_PASSWORD are all set, whatever the
\* label; and the alert step never ends the request.
C9_SendIffConfigured ==
    mail.stage # "none" =>
        /\ mail.attempted <=>
              /\ Configured(env.ALERT_EMAIL)
              /\ Configured(env.EMAIL_SENDER)
              /\ Configured(env.EMAIL_PASSWORD)
        /\ final_label \in {"SAFE", "CRITICAL"}
        /\ (pc = "done" /\ resp.status # 200) =>
              \/ IsExc(OptionalFloat(data, "latitude"))
              \/ IsExc(OptionalFloat(data, "longitude"))

\* C9 witness: a send was attempted for a "SAFE" label.
C9_Witness ==
    /\ mail.attempted
    /\ final_label = "SAFE"
    /\ Succeeded

\* C10: the steps of a request run in the order build, decide, alert, insert,
\* commit, respond: nothing is inserted before the alert step has run, and a
\* success response is given only when the request's row is committed.
C10_StepOrder ==
    /\ Len(log) <= Len(StepOrder)
    /\ \A i \in 1..Len(log) : log[i] = StepOrder[i]
    /\ (txn # {} \/ lastrowid # 0) => mail.stage # "none"
    /\ resp.status = 200 => (txn = {} /\ OwnRows # {})

\* C10 witness: a request ran all its steps, with a send attempted, and
\* succeeded.
C10_Witness ==
    /\ Succeeded
    /\ log = StepOrder
    /\ mail.attempted

====
